---- MODULE Spec2Model ----
(***************************************************************************)
(* Ferromon (src/src/main.rs): the on-demand directory scan of the "Disk   *)
(* dive" screen.  One UI thread (run_app) draws the screen and handles     *)
(* keys; the key 's' calls start_disk_scan, which resets the shared        *)
(* DiskScanState under its mutex and spawns a worker thread running        *)
(* scan_top_dirs.  The worker publishes progress and results through the   *)
(* same mutex, and its closure ends with the completion step.              *)
(*                                                                         *)
(* Scaling.  The three numeric limits of scan_top_dirs (truncate(25),      *)
(* 50_000 files per child, 300_000 files per scan) are kept as the limits  *)
(* TopN, PerChildCap and TotalCap, with small values so that every limit   *)
(* is reached inside the explored state space.  The key 'q' (process exit) *)
(* ends the program and is not an action of the model.                     *)
(*                                                                         *)
(* Metrics.  The head of each loop iteration (refresh, snapshot) and the    *)
(* health classifier share no variable with the scan; they are specified   *)
(* on their own (SpecSnapshot, SpecHealth), and the scan's specifications  *)
(* keep one fixed reading.  The health classifier is not part of           *)
(* src/src/main.rs; it is written down from sections 3 and 4.2 of the      *)
(* specification.  The same holds for the history buffers and the swap     *)
(* trend (SpecHistory), written down from sections 3, 4.2 and 8.           *)
(*                                                                         *)
(* Command line.  parse_args runs once before the terminal is set up; its  *)
(* loop over argv is specified on its own (SpecArgs), one step per         *)
(* iteration, and the other specifications start from the empty command    *)
(* line.                                                                   *)
(*                                                                         *)
(* Scrolling.  Up and Down move proc_scroll and disk_scroll, and the two   *)
(* tables cut their visible rows out of the list with the same expression. *)
(* The scroll keys and that expression are specified on their own          *)
(* (SpecScroll), for list lengths and terminal heights drawn per frame;    *)
(* the scan's specifications have no Up or Down, so that both offsets stay *)
(* 0 there.  u16::MAX is scaled to ScrollMax.                              *)
(***************************************************************************)
EXTENDS Integers, Sequences, FiniteSets, TLC

\* ---------------------------------------------------------------- bounds
\* Accepted scans per run (each accepted start_disk_scan spawns one worker).
MaxScans == 2
\* Child directories read_dir can yield for a target.
MaxChildren == 3
\* Stand-in for results.truncate(25), main.rs:1166.
TopN == 2
\* Stand-in for the per-child file cap 50_000, main.rs:1156.
PerChildCap == 2
\* Stand-in for the cumulative file cap 300_000, main.rs:1156 and 1173.
TotalCap == 3
\* File lengths md.len() can report.
FileSizes == {1}
\* Largest byte count system.total_memory() and used_memory() report.
MaxBytes == 10
\* Largest number of entries system.cpus() reports.
MaxCpus == 2
\* Stand-in for the capacity of a history buffer, 120 samples.
HistoryCapacity == 6
\* Arguments after the program name on the command line.
MaxArgs == 2
\* Stand-in for u16::MAX, where proc_scroll and disk_scroll saturate.
ScrollMax == 4
\* Rows of the list a table shows (procs after truncate, results).
MaxRows == 3
\* Largest height of the table's area, in terminal rows.
MaxHeight == 4

\* ------------------------------------------------------------ data model
Workers == 1..MaxScans

\* enum DiskTarget, main.rs:41-46
DiskTargets == {"Var", "Home", "Root"}

\* enum Screen, main.rs:26-31
Screens == {"Dashboard", "Processes", "DiskDive"}

\* std::env::var_os("HOME"), main.rs:1186: the process environment, which the
\* program never changes.  "unset" stands for None.
HomeEnv == "/home/u"

\* Option<String>::None for DiskScanState.error
NoError == [kind |-> "None", target |-> ""]

\* An error message that does not name the target.
TargetNotFoundUnnamed(path) == [kind |-> "TargetNotFound", target |-> ""]

\* format!("Target does not exist: {}", base.display()), main.rs:1108
TargetNotFound(path) == [kind |-> "TargetNotFound", target |-> path]

\* "No child directories found to scan", main.rs:1126
NoChildren == [kind |-> "NoChildren", target |-> ""]

\* String::new(), main.rs:1085
EmptyProgress == [kind |-> "empty", idx |-> 0, count |-> 0, path |-> <<>>]

\* A progress text that shows the zero-based index.
ChildProgress_zero_based(idx, count, child) ==
    [kind |-> "child", idx |-> idx, count |-> count, path |-> child]

\* format!("{}/{}: {}", idx + 1, children.len(), child.display()), main.rs:1135
ChildProgress(idx, count, child) ==
    [kind |-> "child", idx |-> idx + 1, count |-> count, path |-> child]

\* "Reached scan cap (kept it lightweight).", main.rs:1175
CapProgress == [kind |-> "cap", idx |-> 0, count |-> 0, path |-> <<>>]

\* Option::None for last_target; timestamps use 0 for None.
NoTarget == "none"

\* #[derive(Default)] struct DiskScanState, main.rs:166-175
DefaultDiskScanState ==
    [running          |-> FALSE,
     last_target      |-> NoTarget,
     last_started_at  |-> 0,
     last_finished_at |-> 0,
     progress         |-> EmptyProgress,
     results          |-> <<>>,
     error            |-> NoError]

\* Mutex<DiskScanState> ownership.
Free == [kind |-> "free", id |-> 0]
UiOwner == [kind |-> "ui", id |-> 0]
WorkerOwner(w) == [kind |-> "worker", id |-> w]

\* fn disk_target_path, main.rs:1183-1191
disk_target_path(target) ==
    CASE target = "Var"  -> "/var"
      [] target = "Home" -> IF HomeEnv = "unset" THEN "/" ELSE HomeEnv
      [] target = "Root" -> "/"

\* The i-th child path of a target, as child.display() shows it.
ChildPath(base, i) == <<base, i>>

\* u64::saturating_add, main.rs:1151.  The sum stops at u64::MAX = 2^64 - 1;
\* the sizes of this model (at most PerChildCap files of a length in
\* FileSizes) stay below it, so the sum is the plain one.
saturating_add(a, b) == a + b

Min(a, b) == IF a < b THEN a ELSE b

\* The worker's locals before it runs: scan_top_dirs has not been entered.
\* res is the Result of scan_top_dirs: "Pending" until it returns, then
\* "Ok" or the Err value.
Unspawned ==
    [pc |-> "unspawned", target |-> NoTarget, n |-> 0, idx |-> 0,
     size |-> 0, seen |-> 0, total_seen |-> 0, results |-> <<>>,
     res |-> [kind |-> "Pending", target |-> ""]]

\* The thread has ended: its locals are gone.
Done == [Unspawned EXCEPT !.pc = "done"]

\* ------------------------------------------------------ metrics: snapshot
\* An f64 as the exact quotient num/den; den = 0 stands for the result of
\* a division by zero (NaN or an infinity).  Rounding to 53 bits is not
\* modelled.
F64(n) == [num |-> n, den |-> 1]
F64Div(a, b) == [num |-> a.num * b.den, den |-> a.den * b.num]
F64Mul(a, b) == [num |-> a.num * b.num, den |-> a.den * b.den]

\* A percent that divides without the test of total.
percent_no_zero_test(used, total) ==
    F64Mul(F64Div(F64(used), F64(total)), F64(100))

\* fn percent, main.rs:1202-1208
percent(used, total) ==
    IF total = 0
    THEN F64(0)
    ELSE F64Mul(F64Div(F64(used), F64(total)), F64(100))

\* system.cpus().len(), system.total_memory() and system.used_memory()
\* after a refresh, main.rs:1193-1200
Systems ==
    [cpus : 0..MaxCpus, total_memory : 0..MaxBytes, used_memory : 0..MaxBytes]

\* The reading the scan's specifications keep.
OneSystem == [cpus |-> 1, total_memory |-> MaxBytes, used_memory |-> 0]

\* fn snapshot, main.rs:468-486: the core count and the memory fields of
\* VmSnapshot.
snapshot(sys) ==
    [cpu_cores      |-> sys.cpus,
     total_memory   |-> sys.total_memory,
     used_memory    |-> sys.used_memory,
     memory_percent |-> percent(sys.used_memory, sys.total_memory)]

\* ------------------------------------------------ metrics: health classifier
\* Values are in tenths (normalized_load 1.5 is 15, 20.0 percent is 200);
\* -1 stands for an absent cpu_steal_percent.  swap_increasing is the
\* outcome of the swap-trend detection over the history buffer.
NoSteal == 0 - 1
MetricInputs ==
    [normalized_load          : {1, 7, 8, 10, 11, 15},
     available_memory_percent : {149, 150, 199, 200, 500, 800},
     used_swap                : {0, 1},
     swap_increasing          : BOOLEAN,
     cpu_steal_percent        : {NoSteal, 0, 100, 101},
     cpu_usage                : {499, 500}]

\* All metrics nominal: load 0.1, 80 percent available, no swap, steal 0.
NominalMetrics ==
    [normalized_load |-> 1, available_memory_percent |-> 800, used_swap |-> 0,
     swap_increasing |-> FALSE, cpu_steal_percent |-> 0, cpu_usage |-> 500]

\* The rule table of section 4.2, in table order.  The specification names
\* the reason text of rule 1 only ("CPU pressure"); the other texts stand
\* for the rules' own messages.
Rules ==
    << [id |-> "1",  severity |-> "Critical", reason |-> "CPU pressure"],
       [id |-> "1b", severity |-> "Warning",  reason |-> "CPU load elevated"],
       [id |-> "2",  severity |-> "Critical", reason |-> "memory critical"],
       [id |-> "2b", severity |-> "Warning",  reason |-> "memory low"],
       [id |-> "3",  severity |-> "Critical", reason |-> "swap growing"],
       [id |-> "4",  severity |-> "Critical", reason |-> "CPU steal"],
       [id |-> "5",  severity |-> "Warning",  reason |-> "load/usage mismatch"] >>

\* The condition column of the rule table.
RuleHolds(id, m) ==
    CASE id = "1"  -> m.normalized_load > 10
      [] id = "1b" -> 7 < m.normalized_load /\ m.normalized_load <= 10
      [] id = "2"  -> m.available_memory_percent < 150
      [] id = "2b" -> 150 <= m.available_memory_percent /\ m.available_memory_percent < 200
      [] id = "3"  -> m.used_swap > 0 /\ m.swap_increasing
      [] id = "4"  -> m.cpu_steal_percent # NoSteal /\ m.cpu_steal_percent > 100
      [] id = "5"  -> m.normalized_load > 10 /\ m.cpu_usage < 500

\* Ok < Warning < Critical
SeverityRank(sev) == CASE sev = "Ok" -> 0 [] sev = "Warning" -> 1 [] sev = "Critical" -> 2

MaxSeverity(a, b) == IF SeverityRank(a) >= SeverityRank(b) THEN a ELSE b

\* The rules are evaluated top to bottom; each one that holds appends its
\* (severity, reason) to the issues.
RECURSIVE evaluate_rules(_, _)
evaluate_rules(k, m) ==
    IF k = 0 THEN <<>>
    ELSE LET before == evaluate_rules(k - 1, m)
         IN  IF RuleHolds(Rules[k].id, m)
             THEN Append(before, [severity |-> Rules[k].severity,
                                  reason   |-> Rules[k].reason])
             ELSE before

\* The maximum severity of a list of issues, Ok for the empty list.
RECURSIVE max_severity(_)
max_severity(issues) ==
    IF issues = <<>> THEN "Ok"
    ELSE MaxSeverity(issues[1].severity, max_severity(Tail(issues)))

\* The reasons of a list of issues, in order.
Reasons(issues) == [i \in 1..Len(issues) |-> issues[i].reason]

\* No issue: the summary has no reason to show.
NoReason == "none"

\* A classifier whose status is the severity of its first issue.
classify_status_of_first(m) ==
    LET issues == evaluate_rules(Len(Rules), m)
    IN  [status         |-> IF issues = <<>> THEN "Ok" ELSE issues[1].severity,
         primary_reason |-> IF issues = <<>> THEN NoReason ELSE issues[1].reason,
         secondary      |-> IF issues = <<>> THEN <<>> ELSE Reasons(Tail(issues))]

\* A classifier that shows its most severe issue first.
classify_primary_most_severe(m) ==
    LET issues == evaluate_rules(Len(Rules), m)
        top == max_severity(issues)
        first == CHOOSE i \in 1..Len(issues) :
                    /\ issues[i].severity = top
                    /\ \A j \in 1..(i - 1) : issues[j].severity # top
        others == SelectSeq([i \in 1..Len(issues) |-> <<i, issues[i].reason>>],
                            LAMBDA e : e[1] # first)
    IN  [status         |-> top,
         primary_reason |-> IF issues = <<>> THEN NoReason ELSE issues[first].reason,
         secondary      |-> [i \in 1..Len(others) |-> others[i][2]]]

\* The Health Classifier, (VmSnapshot, History) -> HealthSummary.
classify(m) ==
    LET issues == evaluate_rules(Len(Rules), m)
    IN  [status         |-> max_severity(issues),
         primary_reason |-> IF issues = <<>> THEN NoReason ELSE issues[1].reason,
         secondary      |-> IF issues = <<>> THEN <<>> ELSE Reasons(Tail(issues))]

\* ------------------------------------------- metrics: history buffers
\* Section 3: three independent bounded queues of fixed-point samples
\* (value x 10), all with the same push; one of them is written down.
Samples == {0, 5, 10}

\* Pushes followed per run.
MaxPushes == HistoryCapacity + 2

\* A push that finds the buffer full and leaves the new sample out.
push_drops_newest(buf, v) ==
    IF Len(buf) >= HistoryCapacity THEN buf ELSE Append(buf, v)

\* Push of one sample: the oldest sample is evicted on overflow (FIFO).
push(buf, v) ==
    IF Len(buf) >= HistoryCapacity
    THEN Append(Tail(buf), v)
    ELSE Append(buf, v)

\* Section 4.2, swap trend: at least TrendMinSamples buffered samples, the
\* newest compared to the sample TrendSpan positions older; fewer than
\* WarmupSamples samples are labelled "warming up".
TrendMinSamples == 6
TrendSpan == 5
WarmupSamples == 4
TrendLabels == {"warming up", "increasing", "decreasing", "stable"}

Newest(h) == h[Len(h)]
Older(h) == h[Len(h) - TrendSpan]

\* Swap-trend detection, the input of rule 3.
swap_increasing(h) ==
    /\ Len(h) >= TrendMinSamples
    /\ Newest(h) > Older(h)
    /\ Newest(h) > 0

\* A trend label that compares the newest sample to the one before it.
swap_trend_label_last_step(h) ==
    IF Len(h) < WarmupSamples THEN "warming up"
    ELSE IF Newest(h) > h[Len(h) - 1] /\ Newest(h) > 0 THEN "increasing"
    ELSE IF Newest(h) < h[Len(h) - 1] THEN "decreasing"
    ELSE "stable"

\* The human-readable trend label.  Sections 4.2 and 8 name no label for a
\* buffer the detection cannot compare (4 or 5 samples) other than by
\* exclusion; it is "stable" here.
swap_trend_label(h) ==
    IF Len(h) < WarmupSamples THEN "warming up"
    ELSE IF swap_increasing(h) THEN "increasing"
    ELSE IF Len(h) >= TrendMinSamples /\ Newest(h) < Older(h) THEN "decreasing"
    ELSE "stable"

\* ---------------------------------------------------------- command line
\* fn parse_args, main.rs:91-144.  An argument is the flag it spells and
\* the fields of its text: for "--tick-ms=..." the pieces split('=') yields
\* after the flag, for any other text the text itself.  A field is the
\* number it spells, or NotANumber when parse::<u64>() fails on it.
\* "--help" stands for "-h" too, "--version" for "-V", and argv is the
\* command line after the program name (the code's argv[1..]).
TickDefault == 500
TickMin == 50
TickMax == 5000
NotANumber == 0 - 1
TickValues == {10, 700, 9000}
Fields == TickValues \cup {NotANumber}
FlagArgs ==
    [name : {"--help", "--version", "--no-mouse", "--tick-ms"}, fields : {<<>>}]
OtherArgs == [name : {"other"}, fields : {<<f>> : f \in Fields}]
TickEqArgs ==
    [name : {"--tick-ms="},
     fields : {<<f>> : f \in Fields} \cup {<<f, g>> : f, g \in Fields}]
ArgTexts == FlagArgs \cup OtherArgs \cup TickEqArgs
Argvs == UNION {[1..n -> ArgTexts] : n \in 0..MaxArgs}

\* argv[i + 1].parse::<u64>() is Ok, main.rs:114
IsNumber(a) == a.name = "other" /\ a.fields[1] # NotANumber

\* u64::clamp
clamp(v, lo, hi) == IF v < lo THEN lo ELSE IF v > hi THEN hi ELSE v

\* The locals of parse_args before its loop, main.rs:92-98
StartArgs(argv) ==
    [argv         |-> argv,
     i            |-> 1,
     tick_ms      |-> TickDefault,
     no_mouse     |-> FALSE,
     show_help    |-> FALSE,
     show_version |-> FALSE]

\* One iteration of the loop, main.rs:99-136
parse_arg(c) ==
    LET a == c.argv[c.i]
        next == [c EXCEPT !.i = c.i + 1]
        help == [next EXCEPT !.show_help = TRUE]
    IN  CASE a.name = "--help" -> help
          [] a.name = "--version" -> [next EXCEPT !.show_version = TRUE]
          [] a.name = "--no-mouse" -> [next EXCEPT !.no_mouse = TRUE]
          [] a.name = "--tick-ms" ->
                IF c.i + 1 > Len(c.argv)
                THEN help
                ELSE IF IsNumber(c.argv[c.i + 1])
                THEN [c EXCEPT
                        !.tick_ms = clamp(c.argv[c.i + 1].fields[1], TickMin, TickMax),
                        !.i = c.i + 2]
                ELSE help
          [] a.name = "--tick-ms=" ->
                IF a.fields[1] # NotANumber
                THEN [next EXCEPT !.tick_ms = clamp(a.fields[1], TickMin, TickMax)]
                ELSE help
          [] OTHER -> help

\* -------------------------------------------------------------- scrolling
\* usize::saturating_sub and u16::saturating_sub
saturating_sub(a, b) == IF a < b THEN 0 ELSE a - b

\* u16::saturating_add, main.rs:397 and 399
saturating_add_u16(a, b) == Min(a + b, ScrollMax)

Max(a, b) == IF a > b THEN a ELSE b

\* A window that starts at the scroll offset as it is.
window_offset_unclamped(scroll, len, height) ==
    LET visible == saturating_sub(height, 2)
    IN  [offset |-> scroll,
         end    |-> Min(len, scroll + Max(visible, 1)),
         len    |-> len]

\* The range of &procs[offset..end] and &results[offset..end],
\* main.rs:895-899 and 1035-1037, for a list of len rows in an area of the
\* given height.
window(scroll, len, height) ==
    LET visible == saturating_sub(height, 2)
        offset == Min(scroll, saturating_sub(len, 1))
    IN  [offset |-> offset,
         end    |-> Min(len, offset + Max(visible, 1)),
         len    |-> len]

VARIABLES
    state,        \* the DiskScanState inside the mutex
    lock,         \* owner of the mutex guard
    poisoned,     \* the mutex's poison flag
    workers,      \* per spawned thread: position and locals of the closure
    now,          \* readings of SystemTime::now() so far
    ui_pc,        \* position of the UI thread in run_app's loop
    screen,       \* app.screen
    disk_target,  \* app.disk_target
    proc_scroll,  \* app.proc_scroll
    disk_scroll,  \* app.disk_scroll
    slice,        \* the range of the rows slice of the current frame, if any
    system,       \* the memory counters of sysinfo's System
    vm,           \* the VmSnapshot of the current loop iteration, if any
    metrics,      \* what the health classifier reads
    health,       \* the HealthSummary of the current tick, if any
    hist,         \* one history buffer (the swap history)
    pushed,       \* every sample pushed to hist so far, oldest first
    trend,        \* the trend label of the current tick, if any
    cli           \* parse_args: argv, the loop index i and the flags so far

\* The metrics side of the UI thread.
metric_vars == <<system, vm, metrics, health, hist, pushed, trend>>

\* What the scan shares between its threads, and the UI loop's own state.
scan_vars == <<state, lock, poisoned, workers, now, ui_pc, screen, disk_target,
               proc_scroll, disk_scroll, slice>>

\* The scroll offsets and what the tables cut out with them.
scroll_vars == <<proc_scroll, disk_scroll, slice>>

vars == <<state, lock, poisoned, workers, now, ui_pc, screen, disk_target,
          proc_scroll, disk_scroll, slice,
          system, vm, metrics, health, hist, pushed, trend, cli>>

\* What the UI thread owns.
ui_vars == <<ui_pc, screen, disk_target, scroll_vars, metric_vars, cli>>

\* Threads spawned so far, and those that have not finished their closure.
Spawned == {w \in Workers : workers[w].pc # "unspawned"}
Alive == {w \in Workers : workers[w].pc \notin {"unspawned", "done", "panicked"}}

\* AppState::default() at process start, main.rs:215
ScanInit ==
    /\ state = DefaultDiskScanState
    /\ lock = Free
    /\ poisoned = FALSE
    /\ workers = [w \in Workers |-> Unspawned]
    /\ now = 0
    /\ ui_pc = "loop"
    /\ screen = "Dashboard"
    /\ disk_target = "Var"
    /\ proc_scroll = 0
    /\ disk_scroll = 0
    /\ slice = <<>>

\* Empty history buffers at process start.
NoHistory ==
    /\ hist = <<>>
    /\ pushed = <<>>
    /\ trend = <<>>

\* The empty command line: the loop of parse_args has nothing to read.
NoArgs == cli = StartArgs(<<>>)

\* The first refresh, main.rs:210, for one reading; no loop iteration has
\* taken a snapshot yet (<<>>, else a one-element sequence).
Init ==
    /\ ScanInit
    /\ system = OneSystem
    /\ vm = <<>>
    /\ metrics = NominalMetrics
    /\ health = <<>>
    /\ NoHistory
    /\ NoArgs

\* ------------------------------------------------------- pure operations
\* One pass of the stable sort: e goes behind every entry whose size is at
\* least its own.
InsertBehindGreaterOrEqual(sorted, e) ==
    LET k == Cardinality({i \in 1..Len(sorted) : sorted[i][2] >= e[2]})
    IN  SubSeq(sorted, 1, k) \o <<e>> \o SubSeq(sorted, k + 1, Len(sorted))

\* A scan that publishes its results in push order.
sort_missing(s) == s

\* results.sort_by_key(|(_, b)| Reverse(*b)), main.rs:1165: a stable sort,
\* largest size first, equal sizes in their previous order.
RECURSIVE sort_by_key_reverse(_)
sort_by_key_reverse(s) ==
    IF Len(s) <= 1 THEN s
    ELSE InsertBehindGreaterOrEqual(sort_by_key_reverse(SubSeq(s, 1, Len(s) - 1)),
                                    s[Len(s)])

\* Vec::truncate, main.rs:1166
truncate(s, n) == SubSeq(s, 1, Min(Len(s), n))

\* A push that truncates before it sorts.
push_truncate_sort(results, child, size) ==
    sort_by_key_reverse(truncate(Append(results, <<child, size>>), TopN))

\* results.push(..); sort; truncate, main.rs:1162-1166
push_sort_truncate(results, child, size) ==
    truncate(sort_by_key_reverse(Append(results, <<child, size>>)), TopN)

\* A reset that forgets to mark the scan as running.
reset_state_not_running(st, target, t) ==
    [st EXCEPT !.error = NoError, !.progress = EmptyProgress, !.results = <<>>,
               !.last_target = target, !.last_started_at = t,
               !.last_finished_at = 0]

\* A reset that keeps the rows of the previous scan.
reset_state_keeps_results(st, target, t) ==
    [st EXCEPT !.running = TRUE, !.error = NoError, !.progress = EmptyProgress,
               !.last_target = target, !.last_started_at = t,
               !.last_finished_at = 0]

\* A reset that keeps the error of the previous scan.
reset_state_keeps_error(st, target, t) ==
    [st EXCEPT !.running = TRUE, !.progress = EmptyProgress, !.results = <<>>,
               !.last_target = target, !.last_started_at = t,
               !.last_finished_at = 0]

\* A reset that keeps the finish time of the previous scan.
reset_state_keeps_finish(st, target, t) ==
    [st EXCEPT !.running = TRUE, !.error = NoError, !.progress = EmptyProgress,
               !.results = <<>>, !.last_target = target, !.last_started_at = t]

\* A reset that keeps the target of the previous scan.
reset_state_keeps_target(st, target, t) ==
    [st EXCEPT !.running = TRUE, !.error = NoError, !.progress = EmptyProgress,
               !.results = <<>>, !.last_started_at = t, !.last_finished_at = 0]

\* The writes of start_disk_scan's critical section, main.rs:1083-1089
reset_state(st, target, t) ==
    [st EXCEPT !.running = TRUE,
               !.error = NoError,
               !.progress = EmptyProgress,
               !.results = <<>>,
               !.last_target = target,
               !.last_started_at = t,
               !.last_finished_at = 0]

OkResult == [kind |-> "Ok", target |-> ""]

\* A completion step that clears running only for a successful scan.
complete_state_running_on_error(st, res, t) ==
    [st EXCEPT !.running = (res # OkResult),
               !.last_finished_at = t,
               !.error = IF res = OkResult THEN @ ELSE res]

\* A completion step that drops the Err value.
complete_state_drops_error(st, res, t) ==
    [st EXCEPT !.running = FALSE, !.last_finished_at = t]

\* A completion step that never clears running.
complete_state_keeps_running(st, res, t) ==
    [st EXCEPT !.last_finished_at = t,
               !.error = IF res = OkResult THEN @ ELSE res]

\* The writes of the closure's completion step, main.rs:1097-1101
complete_state(st, res, t) ==
    [st EXCEPT !.running = FALSE,
               !.last_finished_at = t,
               !.error = IF res = OkResult THEN @ ELSE res]

\* start_disk_scan without the running test.
never_scanning(st) == FALSE

\* The `if state.running { return; }` test, main.rs:1080
already_scanning(st) == st.running

\* ------------------------------------------------------------ UI thread
\* run_app's loop alternates terminal.draw and the input poll.  A draw that
\* does not reach render_disk_dive (another screen, or a terminal too small
\* for the main panel, main.rs:317-321) and a poll that brings no key change
\* nothing, so the loop's position is "loop" except inside render_disk_dive:
\* "render" with the guard taken, "drawn" with title and status drawn under
\* the guard, "table" after the guard is dropped.

\* render_disk_dive takes the guard, main.rs:975
RenderLock ==
    /\ ui_pc = "loop"
    /\ screen = "DiskDive"
    /\ lock = Free
    /\ ~poisoned
    /\ lock' = UiOwner
    /\ ui_pc' = "render"
    /\ UNCHANGED <<state, poisoned, workers, now, screen, disk_target>>
    /\ UNCHANGED <<scroll_vars, metric_vars, cli>>

\* render_disk_dive builds the title and the status line from the guarded
\* state and draws both, frame.render_widget(block) and
\* frame.render_widget(status), while it holds the guard, main.rs:977-1028
RenderStatus ==
    /\ ui_pc = "render"
    /\ lock = UiOwner
    /\ ui_pc' = "drawn"
    /\ UNCHANGED <<state, lock, poisoned, workers, now, screen, disk_target>>
    /\ UNCHANGED <<scroll_vars, metric_vars, cli>>

\* A redraw that moves the rows out of the shared state (mem::take) where
\* the code clones them.
RenderUnlock_takes_results ==
    /\ ui_pc = "drawn"
    /\ lock = UiOwner
    /\ state' = [state EXCEPT !.results = <<>>]
    /\ lock' = Free
    /\ ui_pc' = "table"
    /\ UNCHANGED <<poisoned, workers, now, screen, disk_target>>
    /\ UNCHANGED <<scroll_vars, metric_vars, cli>>

\* state.results.clone(); drop(state), main.rs:1031-1032
RenderUnlock ==
    /\ ui_pc = "drawn"
    /\ lock = UiOwner
    /\ lock' = Free
    /\ ui_pc' = "table"
    /\ UNCHANGED <<state, poisoned, workers, now, screen, disk_target>>
    /\ UNCHANGED <<scroll_vars, metric_vars, cli>>

\* The rows of the clone are sorted, sliced and drawn as the table, and the
\* draw closure ends, main.rs:1033-1071
RenderTable ==
    /\ ui_pc = "table"
    /\ ui_pc' = "loop"
    /\ UNCHANGED <<state, lock, poisoned, workers, now, screen, disk_target>>
    /\ UNCHANGED <<scroll_vars, metric_vars, cli>>

\* Esc, 'p', 'd', main.rs:349-360
KeyScreen(s) ==
    /\ ui_pc = "loop"
    /\ screen' = s
    /\ ui_pc' = "loop"
    /\ UNCHANGED <<state, lock, poisoned, workers, now, disk_target>>
    /\ UNCHANGED <<scroll_vars, metric_vars, cli>>

\* The DiskTarget rotation of Tab, main.rs:413-417
next_disk_target(t) ==
    CASE t = "Var"  -> "Home"
      [] t = "Home" -> "Root"
      [] t = "Root" -> "Var"

\* A Tab that drops the rows of the previous target with the scroll offset.
KeyTab_clears_results ==
    /\ ui_pc = "loop"
    /\ lock = Free
    /\ disk_target' = IF screen = "DiskDive" THEN next_disk_target(disk_target)
                      ELSE disk_target
    /\ state' = IF screen = "DiskDive" THEN [state EXCEPT !.results = <<>>] ELSE state
    /\ ui_pc' = "loop"
    /\ UNCHANGED <<lock, poisoned, workers, now, screen>>
    /\ disk_scroll' = IF screen = "DiskDive" THEN 0 ELSE disk_scroll
    /\ proc_scroll' = IF screen = "Processes" THEN 0 ELSE proc_scroll
    /\ UNCHANGED <<slice, metric_vars, cli>>

\* Tab, main.rs:404-426
KeyTab ==
    /\ ui_pc = "loop"
    /\ disk_target' = IF screen = "DiskDive" THEN next_disk_target(disk_target)
                      ELSE disk_target
    /\ ui_pc' = "loop"
    /\ UNCHANGED <<state, lock, poisoned, workers, now, screen>>
    /\ disk_scroll' = IF screen = "DiskDive" THEN 0 ELSE disk_scroll
    /\ proc_scroll' = IF screen = "Processes" THEN 0 ELSE proc_scroll
    /\ UNCHANGED <<slice, metric_vars, cli>>

\* fn start_disk_scan, main.rs:1074-1103: under one guard, return if a scan
\* is running, else reset the state; then spawn the worker.
start_disk_scan ==
    /\ lock = Free
    /\ ~poisoned
    /\ IF already_scanning(state)
       THEN UNCHANGED <<state, workers, now>>
       ELSE LET target == disk_target_path(disk_target)
                w == Cardinality(Spawned) + 1
            IN  /\ w \in Workers
                /\ now' = now + 1
                /\ state' = reset_state(state, target, now')
                /\ workers' = [workers EXCEPT ![w] =
                                  [Unspawned EXCEPT !.pc = "start", !.target = target]]
    /\ UNCHANGED <<lock, poisoned>>

\* 's', main.rs:427-431
KeyS ==
    /\ ui_pc = "loop"
    /\ IF screen = "DiskDive"
       THEN start_disk_scan
       ELSE UNCHANGED <<state, lock, poisoned, workers, now>>
    /\ ui_pc' = "loop"
    /\ UNCHANGED <<screen, disk_target, scroll_vars, metric_vars, cli>>

UiStep ==
    \/ RenderLock
    \/ RenderStatus
    \/ RenderUnlock
    \/ RenderTable
    \/ \E s \in Screens : KeyScreen(s)
    \/ KeyTab
    \/ KeyS

\* --------------------------------------------------------- worker thread
\* scan_top_dirs has returned res to the closure: its locals are gone, the
\* closure keeps the moved target and the result, main.rs:1095
Returned(wk, res) == [Unspawned EXCEPT !.pc = "finish", !.target = wk.target, !.res = res]

\* lock().unwrap() by worker w on a mutex that is not poisoned.
Acquire(w) ==
    /\ lock = Free
    /\ ~poisoned
    /\ lock' = WorkerOwner(w)

\* base.exists(), main.rs:1106-1109.  "/" always exists.
CheckExists(w) ==
    /\ workers[w].pc = "start"
    /\ \E exists \in BOOLEAN :
          /\ workers[w].target = "/" => exists
          /\ workers' = [workers EXCEPT ![w] =
                IF exists
                THEN [@ EXCEPT !.pc = "enumerate"]
                ELSE Returned(@, TargetNotFound(workers[w].target))]
    /\ UNCHANGED <<state, lock, poisoned, now, ui_vars>>

\* The read_dir loop and the children.is_empty() test, main.rs:1113-1130.
\* n is the number of entries of the target that are directories (0 when
\* the target is no directory or cannot be read).
Enumerate(w) ==
    /\ workers[w].pc = "enumerate"
    /\ \E n \in 0..MaxChildren :
          workers' = [workers EXCEPT ![w] =
                IF n = 0
                THEN Returned(@, NoChildren)
                ELSE [@ EXCEPT !.pc = "progress_lock", !.n = n, !.idx = 0,
                               !.results = <<>>, !.total_seen = 0]]
    /\ UNCHANGED <<state, lock, poisoned, now, ui_vars>>

\* inner.lock().unwrap() of the progress block, main.rs:1134
ProgressLock(w) ==
    /\ workers[w].pc = "progress_lock"
    /\ Acquire(w)
    /\ workers' = [workers EXCEPT ![w].pc = "progress_write"]
    /\ UNCHANGED <<state, poisoned, now, ui_vars>>

\* A progress block whose guard lives on into the walk of the child.
ProgressWrite_keeps_guard(w) ==
    /\ workers[w].pc = "progress_write"
    /\ lock = WorkerOwner(w)
    /\ state' = [state EXCEPT !.progress =
                    ChildProgress(workers[w].idx, workers[w].n,
                                  ChildPath(workers[w].target, workers[w].idx + 1))]
    /\ workers' = [workers EXCEPT ![w] = [@ EXCEPT !.pc = "walk", !.size = 0, !.seen = 0]]
    /\ UNCHANGED <<lock, poisoned, now, ui_vars>>

\* st.progress = format!(..) and the end of the block; then the walk's
\* counters start at 0, main.rs:1135-1139
ProgressWrite(w) ==
    /\ workers[w].pc = "progress_write"
    /\ lock = WorkerOwner(w)
    /\ state' = [state EXCEPT !.progress =
                    ChildProgress(workers[w].idx, workers[w].n,
                                  ChildPath(workers[w].target, workers[w].idx + 1))]
    /\ lock' = Free
    /\ workers' = [workers EXCEPT ![w] = [@ EXCEPT !.pc = "walk", !.size = 0, !.seen = 0]]
    /\ UNCHANGED <<poisoned, now, ui_vars>>

\* A walk that tests only the per-child cap.
walk_file_no_total_cap(wk, md) ==
    LET size == IF md >= 0 THEN saturating_add(wk.size, md) ELSE wk.size
        seen == wk.seen + 1
        total_seen == wk.total_seen + 1
    IN  [wk EXCEPT !.size = size, !.seen = seen, !.total_seen = total_seen,
                   !.pc = IF seen >= PerChildCap THEN "push" ELSE "walk"]

\* A walk that gives up the child at the first failed metadata read.
walk_file_metadata_fatal(wk, md) ==
    LET size == IF md >= 0 THEN saturating_add(wk.size, md) ELSE wk.size
        seen == wk.seen + 1
        total_seen == wk.total_seen + 1
    IN  [wk EXCEPT !.size = size, !.seen = seen, !.total_seen = total_seen,
                   !.pc = IF md < 0 \/ seen >= PerChildCap \/ total_seen >= TotalCap
                          THEN "push" ELSE "walk"]

\* One file entry of the walk, main.rs:1148-1159.  md is the file's length,
\* or -1 when entry.metadata() fails.
walk_file(wk, md) ==
    LET size == IF md >= 0 THEN saturating_add(wk.size, md) ELSE wk.size
        seen == wk.seen + 1
        total_seen == wk.total_seen + 1
    IN  [wk EXCEPT !.size = size, !.seen = seen, !.total_seen = total_seen,
                   !.pc = IF seen >= PerChildCap \/ total_seen >= TotalCap
                          THEN "push" ELSE "walk"]

WalkFile(w) ==
    /\ workers[w].pc = "walk"
    /\ \E md \in FileSizes \cup {-1} :
          workers' = [workers EXCEPT ![w] = walk_file(@, md)]
    /\ UNCHANGED <<state, lock, poisoned, now, ui_vars>>

\* An entry that is no file (a directory, a symlink), or an Err entry that
\* .flatten() drops, main.rs:1142-1149: nothing changes.
WalkSkip(w) ==
    /\ workers[w].pc = "walk"
    /\ UNCHANGED vars

\* The WalkDir iterator is exhausted, main.rs:1142-1160
WalkEnd(w) ==
    /\ workers[w].pc = "walk"
    /\ workers' = [workers EXCEPT ![w].pc = "push"]
    /\ UNCHANGED <<state, lock, poisoned, now, ui_vars>>

\* results.push, sort_by_key, truncate, main.rs:1162-1166.  size and seen
\* are locals of the loop body and are not read again in this iteration.
Push(w) ==
    /\ workers[w].pc = "push"
    /\ workers' = [workers EXCEPT ![w] =
            [@ EXCEPT !.pc = "publish_lock", !.size = 0, !.seen = 0,
                      !.results = push_sort_truncate(workers[w].results,
                            ChildPath(workers[w].target, workers[w].idx + 1),
                            workers[w].size)]]
    /\ UNCHANGED <<state, lock, poisoned, now, ui_vars>>

\* inner.lock().unwrap() of the publish block, main.rs:1169
PublishLock(w) ==
    /\ workers[w].pc = "publish_lock"
    /\ Acquire(w)
    /\ workers' = [workers EXCEPT ![w].pc = "publish_write"]
    /\ UNCHANGED <<state, poisoned, now, ui_vars>>

\* A publish step that is not followed by the cumulative cap test.
PublishWrite_no_cap_test(w) ==
    /\ workers[w].pc = "publish_write"
    /\ lock = WorkerOwner(w)
    /\ state' = [state EXCEPT !.results = workers[w].results]
    /\ lock' = Free
    /\ workers' = [workers EXCEPT ![w] =
            IF workers[w].idx + 1 < workers[w].n
            THEN [@ EXCEPT !.pc = "progress_lock", !.idx = @ + 1]
            ELSE Returned(@, OkResult)]
    /\ UNCHANGED <<poisoned, now, ui_vars>>

\* st.results = results.clone() and the end of the block; then the cap test
\* and the loop's next iteration or exit, main.rs:1170-1180
PublishWrite(w) ==
    /\ workers[w].pc = "publish_write"
    /\ lock = WorkerOwner(w)
    /\ state' = [state EXCEPT !.results = workers[w].results]
    /\ lock' = Free
    /\ workers' = [workers EXCEPT ![w] =
            IF workers[w].total_seen >= TotalCap
            THEN [@ EXCEPT !.pc = "cap_lock"]
            ELSE IF workers[w].idx + 1 < workers[w].n
            THEN [@ EXCEPT !.pc = "progress_lock", !.idx = @ + 1]
            ELSE Returned(@, OkResult)]
    /\ UNCHANGED <<poisoned, now, ui_vars>>

\* inner.lock().unwrap() of the cap block, main.rs:1174
CapLock(w) ==
    /\ workers[w].pc = "cap_lock"
    /\ Acquire(w)
    /\ workers' = [workers EXCEPT ![w].pc = "cap_write"]
    /\ UNCHANGED <<state, poisoned, now, ui_vars>>

\* st.progress = "Reached scan cap.."; break; Ok(()), main.rs:1175-1180
CapWrite(w) ==
    /\ workers[w].pc = "cap_write"
    /\ lock = WorkerOwner(w)
    /\ state' = [state EXCEPT !.progress = CapProgress]
    /\ lock' = Free
    /\ workers' = [workers EXCEPT ![w] = Returned(@, OkResult)]
    /\ UNCHANGED <<poisoned, now, ui_vars>>

\* inner.lock().unwrap() of the closure, main.rs:1096
FinishLock(w) ==
    /\ workers[w].pc = "finish"
    /\ Acquire(w)
    /\ workers' = [workers EXCEPT ![w].pc = "finish_write"]
    /\ UNCHANGED <<state, poisoned, now, ui_vars>>

\* A completion that writes running and the finish time under one guard and
\* the error under a second one.
FinishWrite_two_guards(w) ==
    /\ workers[w].pc = "finish_write"
    /\ lock = WorkerOwner(w)
    /\ IF state.running
       THEN /\ now' = now + 1
            /\ state' = [state EXCEPT !.running = FALSE, !.last_finished_at = now']
            /\ workers' = [workers EXCEPT ![w].pc = "finish"]
       ELSE /\ now' = now
            /\ state' = [state EXCEPT !.error = IF workers[w].res = OkResult
                                                 THEN @ ELSE workers[w].res]
            /\ workers' = [workers EXCEPT ![w] = Done]
    /\ lock' = Free
    /\ UNCHANGED <<poisoned, ui_vars>>

\* The completion step and the end of the closure, main.rs:1097-1102
FinishWrite(w) ==
    /\ workers[w].pc = "finish_write"
    /\ lock = WorkerOwner(w)
    /\ now' = now + 1
    /\ state' = complete_state(state, workers[w].res, now')
    /\ lock' = Free
    /\ workers' = [workers EXCEPT ![w] = Done]
    /\ UNCHANGED <<poisoned, ui_vars>>

WorkerStep(w) ==
    \/ CheckExists(w)
    \/ Enumerate(w)
    \/ ProgressLock(w)
    \/ ProgressWrite(w)
    \/ WalkFile(w)
    \/ WalkSkip(w)
    \/ WalkEnd(w)
    \/ Push(w)
    \/ PublishLock(w)
    \/ PublishWrite(w)
    \/ CapLock(w)
    \/ CapWrite(w)
    \/ FinishLock(w)
    \/ FinishWrite(w)

\* -------------------------------------------------------- specification
Next ==
    \/ UiStep
    \/ \E w \in Workers : WorkerStep(w)

Spec == Init /\ [][Next]_vars

\* ------------------------------------------------ worker failure (panic)
\* The closure of thread::spawn, main.rs:1094-1102, runs scan_top_dirs and
\* the completion step with no catch_unwind: a panic unwinds the thread from
\* where it is raised.  A guard dropped by the unwinding poisons the mutex.
\* Panic sites: the directory walk (WalkDir and the filesystem calls under
\* it) and the four blocks that hold the guard.
WorkerPanic(w) ==
    /\ workers[w].pc \in {"walk", "progress_write", "publish_write",
                          "cap_write", "finish_write"}
    /\ workers' = [workers EXCEPT ![w] = [Unspawned EXCEPT !.pc = "panicked"]]
    /\ IF lock = WorkerOwner(w)
       THEN lock' = Free /\ poisoned' = TRUE
       ELSE UNCHANGED <<lock, poisoned>>
    /\ UNCHANGED <<state, now, ui_vars>>

\* lock().unwrap() of the UI thread on a poisoned mutex, main.rs:975 and
\* 1079: the PoisonError makes unwrap panic on the UI thread.
UiLockPoisoned ==
    /\ ui_pc = "loop"
    /\ screen = "DiskDive"
    /\ lock = Free
    /\ poisoned
    /\ ui_pc' = "crashed"
    /\ UNCHANGED <<state, lock, poisoned, workers, now, screen, disk_target>>
    /\ UNCHANGED <<scroll_vars, metric_vars, cli>>

NextPanic ==
    \/ Next
    \/ \E w \in Workers : WorkerPanic(w)
    \/ UiLockPoisoned

SpecPanic == Init /\ [][NextPanic]_vars

\* The worker thread is scheduled, and gets the mutex when it is free again
\* and again (the UI frees it in every loop iteration, main.rs:1032, and
\* polls for input for 50 ms before the next draw, main.rs:339); the UI
\* thread leaves render_disk_dive.
FairSpec ==
    /\ Spec
    /\ \A w \in Workers : SF_vars(WorkerStep(w))
    /\ WF_vars(RenderStatus)
    /\ WF_vars(RenderUnlock)

\* ----------------------------------------------- metrics specifications
\* The head of a loop iteration, main.rs:272-299: refresh(system, disks)
\* when the tick has elapsed, then vm = snapshot(system, ..).
Tick ==
    /\ \E refreshed \in Systems :
          /\ system' = refreshed
          /\ vm' = <<snapshot(system')>>
    /\ UNCHANGED <<scan_vars, metrics, health, hist, pushed, trend, cli>>

InitSnapshot ==
    /\ ScanInit
    /\ system \in Systems
    /\ vm = <<>>
    /\ metrics = NominalMetrics
    /\ health = <<>>
    /\ NoHistory
    /\ NoArgs

SpecSnapshot == InitSnapshot /\ [][Tick]_vars

\* The classifier's step of a tick: the HealthSummary for the snapshot and
\* history at hand.
Classify ==
    /\ health' = <<classify(metrics)>>
    /\ UNCHANGED <<scan_vars, system, vm, metrics, hist, pushed, trend, cli>>

InitHealth ==
    /\ ScanInit
    /\ system = OneSystem
    /\ vm = <<>>
    /\ metrics \in MetricInputs
    /\ health = <<>>
    /\ NoHistory
    /\ NoArgs

SpecHealth == InitHealth /\ [][Classify]_vars

\* The history's step of a tick: the sample of the current snapshot is
\* pushed, and the trend label is read off the buffer.
PushSample ==
    /\ Len(pushed) < MaxPushes
    /\ \E v \in Samples :
          /\ hist' = push(hist, v)
          /\ pushed' = Append(pushed, v)
    /\ trend' = <<swap_trend_label(hist')>>
    /\ UNCHANGED <<scan_vars, system, vm, metrics, health, cli>>

SpecHistory == Init /\ [][PushSample]_vars

\* ------------------------------------------ command-line specification
\* while i < argv.len(), main.rs:99: one iteration per step.
ParseArg ==
    /\ cli.i <= Len(cli.argv)
    /\ cli' = parse_arg(cli)
    /\ UNCHANGED <<scan_vars, metric_vars>>

InitArgs ==
    /\ ScanInit
    /\ system = OneSystem
    /\ vm = <<>>
    /\ metrics = NominalMetrics
    /\ health = <<>>
    /\ NoHistory
    /\ \E argv \in Argvs : cli = StartArgs(argv)

SpecArgs == InitArgs /\ [][ParseArg]_vars

\* ------------------------------------------------ scroll specification
\* Up, main.rs:388-394
KeyUp ==
    /\ ui_pc = "loop"
    /\ proc_scroll' = IF screen = "Processes"
                      THEN saturating_sub(proc_scroll, 1) ELSE proc_scroll
    /\ disk_scroll' = IF screen = "DiskDive"
                      THEN saturating_sub(disk_scroll, 1) ELSE disk_scroll
    /\ UNCHANGED <<state, lock, poisoned, workers, now, ui_pc, screen, disk_target>>
    /\ UNCHANGED <<slice, metric_vars, cli>>

\* Down, main.rs:395-401
KeyDown ==
    /\ ui_pc = "loop"
    /\ proc_scroll' = IF screen = "Processes"
                      THEN saturating_add_u16(proc_scroll, 1) ELSE proc_scroll
    /\ disk_scroll' = IF screen = "DiskDive"
                      THEN saturating_add_u16(disk_scroll, 1) ELSE disk_scroll
    /\ UNCHANGED <<state, lock, poisoned, workers, now, ui_pc, screen, disk_target>>
    /\ UNCHANGED <<slice, metric_vars, cli>>

\* The rows slice of a frame of the Processes or the Disk dive screen,
\* main.rs:895-899 and 1035-1037: len is procs.len() or results.len() of
\* that frame and height the height of the table's area.
RenderSlice ==
    /\ ui_pc = "loop"
    /\ screen \in {"Processes", "DiskDive"}
    /\ \E len \in 0..MaxRows, height \in 0..MaxHeight :
          slice' = <<window(IF screen = "Processes" THEN proc_scroll ELSE disk_scroll,
                            len, height)>>
    /\ UNCHANGED <<state, lock, poisoned, workers, now, ui_pc, screen, disk_target>>
    /\ UNCHANGED <<proc_scroll, disk_scroll, metric_vars, cli>>

NextScroll ==
    \/ KeyUp
    \/ KeyDown
    \/ KeyTab
    \/ \E s \in Screens : KeyScreen(s)
    \/ RenderSlice

SpecScroll == Init /\ [][NextScroll]_vars

\* ---------------------------------------------------------------- claims
\* A call of start_disk_scan: the key 's' on the Disk dive screen.
StartScanCall == KeyS /\ screen = "DiskDive"

\* C1: a start_scan call while running is true changes no field of the
\* shared state and spawns no worker, whatever target is selected.
C1_StartWhileRunningIsNoOp ==
    [][(state.running /\ StartScanCall) => (state' = state /\ workers' = workers)]_vars

\* A scan is running, start_scan can be called, and the selected target is
\* not the one being scanned.
C1_Witness ==
    /\ state.running
    /\ state.results # <<>>
    /\ disk_target_path(disk_target) # state.last_target
    /\ ENABLED StartScanCall

\* C2: at most one scan worker thread is alive in every reachable state.
C2_AtMostOneWorker == Cardinality(Alive) <= 1

\* The second worker runs after the first has ended.
C2_Witness == workers[1].pc = "done" /\ workers[2].pc = "walk"

\* C3: a start_scan call while no scan is running resets the shared state
\* before it returns (running, no error, no results, no progress, the
\* selected target, start stamped, finish cleared) and spawns exactly one
\* worker, which has not run yet.
C3_StartResetsState ==
    [][(~state.running /\ StartScanCall) =>
          /\ state'.running
          /\ state'.error = [kind |-> "None", target |-> ""]
          /\ state'.results = <<>>
          /\ state'.progress.kind = "empty"
          /\ state'.last_target = disk_target_path(disk_target)
          /\ state'.last_started_at > state.last_finished_at
          /\ state'.last_started_at > 0
          /\ state'.last_finished_at = 0
          /\ \E w \in Workers :
                /\ workers[w].pc = "unspawned"
                /\ workers'[w].pc = "start"
                /\ workers'[w].target = state'.last_target
                /\ \A v \in Workers \ {w} : workers'[v] = workers[v]]_vars

\* A second scan has just been accepted: its worker has not run, and the
\* state read now shows running.
C3_Witness ==
    /\ workers[1].pc = "done"
    /\ workers[2].pc = "start"
    /\ state.running
    /\ state.last_started_at = now

\* C4: running = true implies error = None, in every state.
C4_RunningImpliesNoError == state.running => state.error.kind = "None"

\* The UI holds the guard and reads a running second scan.
C4_Witness ==
    /\ lock = UiOwner
    /\ state.running
    /\ workers[1].pc = "done"
    /\ state.error.kind = "None"

\* The converse of C4 is not required: an error with running = false.
C4_ErrorWhileNotRunning == ~state.running /\ state.error.kind # "None"

\* C5: the published results have at most TopN entries and are sorted in
\* non-increasing order of size, in every state.
C5_ResultsCappedAndSorted ==
    /\ Len(state.results) <= TopN
    /\ \A i \in 1..Len(state.results) - 1 :
          state.results[i][2] >= state.results[i + 1][2]

\* More than TopN children have been published and the kept sizes differ.
C5_Witness ==
    /\ Len(state.results) = TopN
    /\ state.results[1][2] > state.results[TopN][2]
    /\ \E w \in Workers : workers[w].idx >= TopN /\ workers[w].pc = "cap_lock"

\* C6: every accepted scan finishes: from a state with running = true a state
\* with running = false and last_finished_at set is reached.
C6_ScanFinishes ==
    state.running ~> (~state.running /\ state.last_finished_at # 0)

\* A scan that stopped at the cumulative file cap has finished.
C6_Witness ==
    /\ ~state.running
    /\ state.last_finished_at # 0
    /\ state.progress.kind = "cap"

\* C7: a failed scan does not suppress the next one: whenever error is set,
\* running is false, and a start_scan call (the UI is in its loop on the
\* Disk dive screen, fewer than MaxScans scans so far) is accepted: it
\* clears error, sets running and spawns one worker.
C7_FailedScanAllowsRetry ==
    state.error.kind # "None" =>
       /\ ~state.running
       /\ (ui_pc = "loop" /\ screen = "DiskDive" /\ Cardinality(Spawned) < MaxScans) =>
             ENABLED (/\ StartScanCall
                      /\ state'.running
                      /\ state'.error.kind = "None"
                      /\ Cardinality(Spawned') = Cardinality(Spawned) + 1)

\* A scan has failed and the UI is where it can call start_scan again.
C7_Witness ==
    /\ state.error.kind # "None"
    /\ state.last_finished_at = now
    /\ ui_pc = "loop"
    /\ screen = "DiskDive"
    /\ Cardinality(Spawned) < MaxScans

\* C8: a scan of a target without child directories publishes no result
\* and no per-child progress, and its completion step sets the "No child
\* directories" error and running = false.
C8_NoChildrenFails ==
    [][\A w \in Workers :
          workers[w].res.kind = "NoChildren" =>
             /\ state.results = <<>>
             /\ state.progress.kind = "empty"
             /\ workers'[w].pc = "done" =>
                   /\ state'.error.kind = "NoChildren"
                   /\ ~state'.running
                   /\ state'.results = <<>>
                   /\ state'.progress.kind = "empty"]_vars

\* Such a scan has ended.
C8_Witness ==
    /\ state.error.kind = "NoChildren"
    /\ ~state.running
    /\ state.last_finished_at = now

\* C9: a scan of a target that does not exist fails before it reaches any
\* child (no progress, no result) and changes the shared state only in its
\* completion step, which sets the error naming the target, running = false
\* and the finish time.
C9_TargetNotFoundFails ==
    [][\A w \in Workers :
          workers[w].res.kind = "TargetNotFound" =>
             /\ state.running /\ state.error.kind = "None"
             /\ state.results = <<>> /\ state.progress.kind = "empty"
             /\ state.last_finished_at = 0
             /\ \/ state' = state
                \/ /\ workers'[w].pc = "done"
                   /\ state' = [state EXCEPT
                         !.error = [kind |-> "TargetNotFound",
                                    target |-> state.last_target],
                         !.running = FALSE,
                         !.last_finished_at = now']
                   /\ now' > state.last_started_at]_vars

\* Such a scan has ended, for a target other than "/".
C9_Witness ==
    /\ state.error = [kind |-> "TargetNotFound", target |-> "/var"]
    /\ ~state.running
    /\ state.last_finished_at = now

\* C10: every worker failure, a panic included, ends with error set and
\* running = false, and the UI thread keeps reading the state.
C10_WorkerFailureReported ==
    /\ \A w \in Workers :
          workers[w].pc = "panicked" => (state.error.kind # "None" /\ ~state.running)
    /\ ui_pc # "crashed"

\* Positions of the worker at a lock().unwrap() and inside a block that
\* holds the guard, main.rs:1096, 1134, 1169, 1174.
LockRequestPcs == {"progress_lock", "publish_lock", "cap_lock", "finish"}
GuardPcs == {"progress_write", "publish_write", "cap_write", "finish_write"}

\* The worker's lock().unwrap() at its position.
WorkerLock(w) == ProgressLock(w) \/ PublishLock(w) \/ CapLock(w) \/ FinishLock(w)

\* C11: the guard is owned only by a thread inside one of its critical
\* sections, and a lock request on the free mutex is granted, to the UI
\* and to the worker, also after a worker failure.
C11_LockAlwaysGranted ==
    /\ lock.kind = "worker" => workers[lock.id].pc \in GuardPcs
    /\ lock.kind = "ui" => ui_pc \in {"render", "drawn"}
    /\ (lock = Free /\ ui_pc = "loop" /\ screen = "DiskDive") =>
          /\ ENABLED RenderLock
          /\ (state.running \/ Cardinality(Spawned) < MaxScans) =>
                ENABLED StartScanCall
    /\ \A w \in Workers :
          (lock = Free /\ workers[w].pc \in LockRequestPcs) => ENABLED WorkerLock(w)

\* C12: the worker owns the guard only in the progress write, the results
\* publish, the cap message write and the completion step; it does not own
\* it while it tests the target, enumerates children or walks a child.
C12_NoLockWhileWalking ==
    \A w \in Workers :
       /\ lock = WorkerOwner(w) => workers[w].pc \in GuardPcs
       /\ workers[w].pc \in {"start", "enumerate", "walk", "push"} =>
             lock # WorkerOwner(w)

\* The worker is in the middle of a child's walk while the UI holds the
\* guard.
C12_Witness ==
    \E w \in Workers :
       workers[w].pc = "walk" /\ workers[w].seen > 0 /\ lock = UiOwner

\* C13: the UI holds the guard only to read and clone the state: once it
\* has drawn a widget of the Disk dive screen it no longer holds it, so no
\* worker waits for the guard while the UI draws.
C13_RenderAfterRelease ==
    /\ ui_pc \in {"drawn", "table"} => lock # UiOwner
    /\ \A w \in Workers :
          (ui_pc \in {"drawn", "table"} /\ workers[w].pc \in LockRequestPcs
             /\ lock.kind # "worker") => ENABLED WorkerLock(w)


C15_CapEndsScanOk ==
    [][\A w \in Workers :
          LET wk == workers[w]
              wk2 == workers'[w]
          IN  /\ wk.total_seen >= TotalCap =>
                    /\ wk.pc \in {"push", "publish_lock", "publish_write",
                                  "cap_lock", "cap_write"}
                    /\ wk2.pc \in {"push", "publish_lock", "publish_write",
                                   "cap_lock", "cap_write", "finish"}
                    /\ wk2.idx = wk.idx \/ wk2.pc = "finish"
                    /\ (wk.pc = "publish_write" /\ wk2.pc # wk.pc) =>
                          /\ wk2.pc = "cap_lock"
                          /\ state'.results = wk.results
                          /\ \/ \E i \in 1..Len(state'.results) :
                                   state'.results[i][1] = ChildPath(wk.target, wk.idx + 1)
                             \/ Len(state'.results) = TopN
                    /\ (wk.pc = "cap_write" /\ wk2.pc # wk.pc) =>
                          /\ state'.progress = CapProgress
                          /\ wk2.pc = "finish"
                          /\ wk2.res = OkResult
              /\ (state.progress.kind = "cap" /\ wk2.pc = "done" /\ wk.pc # "done") =>
                    /\ ~state'.running
                    /\ state'.error.kind = "None"
                    /\ state'.progress.kind = "cap"
                    /\ state'.results = state.results]_vars

\* The cap message is about to be written while children remain unwalked.
C15_Witness ==
    \E w \in Workers :
       /\ workers[w].pc = "cap_write"
       /\ workers[w].idx + 1 < workers[w].n
       /\ state.results # <<>>

\* C16: within one scan the per-child counter never exceeds PerChildCap and
\* the cumulative counter never exceeds TotalCap; the walk goes on only
\* while both are below their caps; the per-child counter is 0 when a
\* child's walk starts and the cumulative counter never decreases from one
\* child to the next.
C16_FileCaps ==
    [][\A w \in Workers :
          LET wk == workers[w]
              wk2 == workers'[w]
          IN  /\ wk.seen <= PerChildCap
              /\ wk.total_seen <= TotalCap
              /\ wk.seen <= wk.total_seen
              /\ wk.pc = "walk" => (wk.seen < PerChildCap /\ wk.total_seen < TotalCap)
              /\ (wk.pc = "progress_write" /\ wk2.pc = "walk") => wk2.seen = 0
              /\ (wk.pc = "walk" /\ wk2.seen # wk.seen) =>
                    /\ wk2.seen = wk.seen + 1
                    /\ wk2.total_seen = wk.total_seen + 1
                    /\ wk2.pc = "push" <=>
                          (wk2.seen >= PerChildCap \/ wk2.total_seen >= TotalCap)
              /\ (wk.pc \notin {"unspawned", "start", "enumerate"}
                    /\ wk2.pc \notin {"finish", "panicked"}) =>
                    wk2.total_seen >= wk.total_seen]_vars

\* The second child's walk has stopped at the cumulative cap with its own
\* counter below the per-child cap.
C16_Witness ==
    \E w \in Workers :
       /\ workers[w].pc = "push"
       /\ workers[w].idx = 1
       /\ workers[w].total_seen = TotalCap
       /\ workers[w].seen < PerChildCap

\* C17: a failed metadata read changes nothing in the shared state and
\* does not end the child's walk unless a cap is reached; every scan that
\* has entered the loop over the children goes on to the next child after
\* each publish below the cap, returns Ok, and ends with error = None.
C17_EntryErrorsNotFatal ==
    [][\A w \in Workers :
          LET wk == workers[w]
              wk2 == workers'[w]
              InLoop == {"progress_lock", "progress_write", "walk", "push",
                         "publish_lock", "publish_write", "cap_lock", "cap_write"}
          IN  /\ (wk.pc = "walk" /\ wk2.seen = wk.seen + 1 /\ wk2.size = wk.size) =>
                    /\ state' = state
                    /\ wk2.pc = "walk" \/
                          (wk2.seen >= PerChildCap \/ wk2.total_seen >= TotalCap)
              /\ wk.pc \in InLoop =>
                    /\ state.running /\ state.error.kind = "None"
                    /\ state'.error.kind = "None"
                    /\ wk2.pc \in InLoop \/ (wk2.pc = "finish" /\ wk2.res = OkResult)
              /\ (wk.pc = "publish_write" /\ wk2.pc # wk.pc
                    /\ wk.total_seen < TotalCap /\ wk.idx + 1 < wk.n) =>
                    (wk2.pc = "progress_lock" /\ wk2.idx = wk.idx + 1)
              /\ (wk.res = OkResult /\ wk2.pc = "done") =>
                    (state'.error.kind = "None" /\ ~state'.running)]_vars

\* The first child's files were counted with no size added (their metadata
\* reads failed); the child is published and the second child's walk begins.
C17_Witness ==
    \E w \in Workers :
       /\ workers[w].pc = "walk"
       /\ workers[w].idx = 1
       /\ workers[w].seen = 0
       /\ workers[w].total_seen > 0
       /\ Len(state.results) = 1
       /\ state.results[1][2] = 0

\* C18: percent(used, total) is 0 when total = 0 and used/total*100
\* otherwise; it never divides by zero and is never negative.
C18_Percent ==
    \A i \in 1..Len(vm) :
       /\ vm[i].memory_percent.den > 0
       /\ vm[i].memory_percent.num >= 0
       /\ vm[i].total_memory = 0 => vm[i].memory_percent.num = 0
       /\ vm[i].total_memory # 0 =>
             vm[i].memory_percent.num * vm[i].total_memory
                = vm[i].used_memory * 100 * vm[i].memory_percent.den

\* A snapshot was taken of a system that reports no memory but some of it
\* used.
C18_Witness ==
    /\ vm # <<>>
    /\ vm[1].total_memory = 0
    /\ vm[1].used_memory > 0
    /\ vm[1].memory_percent.num = 0

\* The rules of the table that hold for the metrics, as table positions.
Triggered == {k \in 1..Len(Rules) : RuleHolds(Rules[k].id, metrics)}

\* C19: the status is the maximum severity over the rules that hold for
\* the metrics, and Ok with an empty secondary list when none holds; load
\* 1.5, 50 percent available, no swap and no steal value give Critical.
C19_StatusIsMaxSeverity ==
    \A i \in 1..Len(health) :
       /\ Triggered = {} => (health[i].status = "Ok" /\ health[i].secondary = <<>>)
       /\ Triggered # {} =>
             /\ \E k \in Triggered : Rules[k].severity = health[i].status
             /\ \A k \in Triggered :
                   SeverityRank(Rules[k].severity) <= SeverityRank(health[i].status)
       /\ (metrics.normalized_load = 15 /\ metrics.available_memory_percent = 500
             /\ metrics.used_swap = 0 /\ metrics.cpu_steal_percent = NoSteal) =>
             (health[i].status = "Critical" /\ health[i].primary_reason = "CPU pressure")

\* The summary of metrics for which a Warning rule (1b) and a Critical rule
\* (2) hold is Critical.
C19_Witness ==
    /\ health # <<>>
    /\ health[1].status = "Critical"
    /\ 2 \in Triggered
    /\ 3 \in Triggered
    /\ metrics.cpu_steal_percent = NoSteal

\* The k-th smallest element of a set of table positions.
RECURSIVE Nth(_, _)
Nth(S, k) ==
    LET least == CHOOSE x \in S : \A y \in S : x <= y
    IN  IF k = 1 THEN least ELSE Nth(S \ {least}, k - 1)

\* C20: primary_reason is the reason of the first rule in table order that
\* holds, whatever its severity; the reasons of the other rules that hold
\* form secondary, in table order, one entry per rule.
C20_PrimaryIsFirstTriggered ==
    \A i \in 1..Len(health) :
       Triggered # {} =>
          /\ health[i].primary_reason = Rules[Nth(Triggered, 1)].reason
          /\ Len(health[i].secondary) = Cardinality(Triggered) - 1
          /\ \A j \in 1..Len(health[i].secondary) :
                health[i].secondary[j] = Rules[Nth(Triggered, j + 1)].reason

\* The Warning of rule 1b is primary although rules 2 and 4 are Critical.
C20_Witness ==
    /\ health # <<>>
    /\ Triggered = {2, 3, 6}
    /\ health[1].status = "Critical"
    /\ health[1].primary_reason = "CPU load elevated"
    /\ health[1].secondary = <<"memory critical", "CPU steal">>

\* The entries of a results list, as a set.
Entries(r) == {r[i] : i \in 1..Len(r)}

\* C22: each child's completion publishes the TopN largest of the children
\* completed so far, as (child path, summed size): the new list has
\* min(k, TopN) entries, keeps every earlier entry unless the list is full
\* and the entry left out is no larger than any entry kept, and holds the
\* new child under the same condition.
C22_ResultsAreTopOfCompleted ==
    [][\A w \in Workers :
          LET wk == workers[w]
              wk2 == workers'[w]
              child == <<ChildPath(wk.target, wk.idx + 1), wk.size>>
              all == Entries(wk.results) \cup {child}
          IN  /\ (wk.pc = "push" /\ wk2.pc = "publish_lock") =>
                    /\ state.results = wk.results
                    /\ Len(wk.results) = Min(wk.idx, TopN)
                    /\ Len(wk2.results) = Min(wk.idx + 1, TopN)
                    /\ Entries(wk2.results) \subseteq all
                    /\ Cardinality(Entries(wk2.results)) = Len(wk2.results)
                    /\ \A gone \in all \ Entries(wk2.results) :
                          /\ Len(wk2.results) = TopN
                          /\ \A kept \in Entries(wk2.results) : kept[2] >= gone[2]
              /\ (wk.pc = "publish_write"
                    /\ wk2.pc \in {"progress_lock", "cap_lock", "finish"}) =>
                    /\ state'.results = wk.results
                    /\ Len(state'.results) = Min(wk.idx + 1, TopN)]_vars

\* The child after the TopN-th is the largest so far: it is about to be
\* published in first place and the first child is no longer listed.
C22_Witness ==
    \E w \in Workers :
       /\ workers[w].pc = "publish_write"
       /\ workers[w].idx = TopN
       /\ workers[w].results[1][1] = ChildPath(workers[w].target, TopN + 1)
       /\ \E i \in 1..Len(state.results) :
             state.results[i][1] = ChildPath(workers[w].target, 1)
       /\ \A i \in 1..Len(workers[w].results) :
             workers[w].results[i][1] # ChildPath(workers[w].target, 1)

\* C23: while child i of n is walked and until its result is published the
\* progress reads "i/n: <child path>"; the progress of a scan starts at
\* child 1 and moves from child i to child i + 1 only.
C23_ProgressBeforeWalk ==
    [][/\ \A w \in Workers :
             workers[w].pc \in {"walk", "push", "publish_lock", "publish_write"} =>
                state.progress = [kind  |-> "child",
                                  idx   |-> workers[w].idx + 1,
                                  count |-> workers[w].n,
                                  path  |-> ChildPath(workers[w].target,
                                                      workers[w].idx + 1)]
       /\ (state'.progress # state.progress /\ state'.progress.kind = "child") =>
             /\ state.progress.kind = "empty" => state'.progress.idx = 1
             /\ state.progress.kind = "child" =>
                   /\ state'.progress.idx = state.progress.idx + 1
                   /\ state'.progress.count = state.progress.count
             /\ state.progress.kind # "cap"
             /\ state'.progress.idx <= state'.progress.count
             /\ state'.results = state.results]_vars

\* The second child's result is about to be published under the progress
\* "2/n".
C23_Witness ==
    \E w \in Workers :
       /\ workers[w].pc = "publish_write"
       /\ workers[w].idx = 1
       /\ state.progress.kind = "child"
       /\ state.progress.idx = 2
       /\ Len(state.results) = 1

\* A key handled by the input step of the loop, main.rs:346-439, among
\* those that write a variable of the scan's specification.
KeyStep == (\E s \in Screens : KeyScreen(s)) \/ KeyTab \/ KeyS

\* C24: while running is true no key changes running, last_target,
\* results, error or any other field of the shared state, nor the worker.
C24_NoCancel ==
    [][(state.running /\ KeyStep) => (state' = state /\ workers' = workers)]_vars

\* The worker is about to publish for "/var" while another target is
\* selected and another screen is shown.
C24_Witness ==
    \E w \in Workers :
       /\ state.running
       /\ workers[w].pc = "publish_write"
       /\ state.last_target = "/var"
       /\ disk_target # "Var"
       /\ screen = "Processes"

\* C28: the completion step is one write for every reader: as long as a
\* failed scan's worker has not ended, running is true, error is None and
\* the finish time is unset; the step that ends it sets running = false,
\* the finish time and the error together.
C28_CompletionAtomic ==
    [][\A w \in Workers :
          /\ workers[w].res.kind \in {"TargetNotFound", "NoChildren"} =>
                /\ state.running
                /\ state.error.kind = "None"
                /\ state.last_finished_at = 0
          /\ (workers[w].pc = "finish_write" /\ state' # state) =>
                /\ workers'[w].pc = "done"
                /\ ~state'.running
                /\ state'.last_finished_at # 0
                /\ workers[w].res.kind # "Ok" => state'.error = workers[w].res
                /\ workers[w].res.kind = "Ok" => state'.error = state.error]_vars

\* The UI reads, under its guard, a scan that has just failed.
C28_Witness ==
    /\ lock = UiOwner
    /\ ui_pc = "drawn"
    /\ ~state.running
    /\ state.error.kind # "None"
    /\ state.last_finished_at = now

\* C29: error # None implies that results is empty, in every state.
C29_ErrorImpliesNoResults == state.error.kind # "None" => state.results = <<>>

\* The second scan has failed.
C29_Witness ==
    /\ workers[2].pc = "done"
    /\ state.error.kind = "NoChildren"
    /\ state.results = <<>>
    /\ state.last_started_at > 1

\* C30: running implies that the start time is set and the finish time is
\* not; with a scan finished and none running both are set; before the
\* first scan neither is set and running is false.
C30_TimestampsFollowLifecycle ==
    /\ state.running => (state.last_started_at # 0 /\ state.last_finished_at = 0)
    /\ (~state.running /\ Spawned # {}) =>
          (state.last_started_at # 0 /\ state.last_finished_at # 0)
    /\ Spawned = {} =>
          (~state.running /\ state.last_started_at = 0 /\ state.last_finished_at = 0)

\* The second scan runs: its start is stamped and the finish time of the
\* first is cleared.
C30_Witness ==
    /\ workers[1].pc = "done"
    /\ 2 \in Alive
    /\ state.running
    /\ state.last_started_at = 3
    /\ state.last_finished_at = 0

\* C21: a history buffer never holds more than its capacity; it holds
\* exactly the most recent samples pushed, in push order: all of them up to
\* the capacity, and past it the oldest are evicted first.
C21_HistoryIsFifoWindow ==
    /\ Len(hist) <= HistoryCapacity
    /\ Len(hist) = Min(Len(pushed), HistoryCapacity)
    /\ hist = SubSeq(pushed, Len(pushed) - Len(hist) + 1, Len(pushed))

\* More samples pushed than the buffer holds, the evicted one differing
\* from the one that took its place at the head.
C21_Witness ==
    /\ Len(pushed) > HistoryCapacity
    /\ Len(hist) = HistoryCapacity
    /\ hist[1] # pushed[1]

\* A buffer whose samples are all equal.
Constant(h) == \A k \in 1..Len(h) : h[k] = h[1]

\* C25: the trend label is "increasing" exactly when at least 6 samples are
\* buffered and the newest is above the sample 5 positions older and above
\* zero; fewer than 4 samples are "warming up"; a buffer ending below the
\* sample 5 positions older is "decreasing"; a constant buffer of at least
\* 4 samples is "stable"; every buffer, of any length, has one label.
C25_SwapTrendLabel ==
    \A k \in 1..Len(trend) :
        /\ trend[k] \in TrendLabels
        /\ trend[k] = "increasing" <=>
              (/\ Len(hist) >= 6
               /\ hist[Len(hist)] > hist[Len(hist) - 5]
               /\ hist[Len(hist)] > 0)
        /\ Len(hist) < 4 => trend[k] = "warming up"
        /\ (Len(hist) >= 6 /\ hist[Len(hist)] < hist[Len(hist) - 5])
              => trend[k] = "decreasing"
        /\ (Len(hist) >= 4 /\ Constant(hist)) => trend[k] = "stable"

\* The buffer 0,0,0,0,0,10 labelled "increasing".
C25_Witness ==
    /\ hist = <<0, 0, 0, 0, 0, 10>>
    /\ trend = <<"increasing">>

\* C26: the core count carried by every VmSnapshot is at least 1.
C26_CoresAtLeastOne ==
    \A k \in 1..Len(vm) : vm[k].cpu_cores >= 1

\* The argument read by the current iteration, and the one behind it.
CurrentArg == cli.argv[cli.i]
HasValueArg == cli.i + 1 <= Len(cli.argv)
ValueArg == cli.argv[cli.i + 1]

\* The value written behind "--tick-ms=" is a number.
EqValueIsNumber(a) == Len(a.fields) = 1 /\ a.fields[1] # NotANumber

\* C27: the tick period is always within [50, 5000]; it is 500 when the
\* command line names no tick period; an iteration that reads a numeric
\* value, in either form, sets the period to that value clamped; one that
\* reads a missing or non-numeric value or an unknown flag sets show_help
\* and leaves the period as it was.
C27_TickPeriod ==
    /\ [](cli.tick_ms \in 50..5000)
    /\ []((\A k \in 1..Len(cli.argv) :
               cli.argv[k].name \notin {"--tick-ms", "--tick-ms="})
          => cli.tick_ms = 500)
    /\ [][ParseArg =>
          /\ (CurrentArg.name = "--tick-ms" /\ HasValueArg /\ IsNumber(ValueArg))
                => cli'.tick_ms = clamp(ValueArg.fields[1], 50, 5000)
          /\ (CurrentArg.name = "--tick-ms=" /\ EqValueIsNumber(CurrentArg))
                => cli'.tick_ms = clamp(CurrentArg.fields[1], 50, 5000)
          /\ (\/ (CurrentArg.name = "--tick-ms"
                     /\ (~HasValueArg \/ ~IsNumber(ValueArg)))
               \/ (CurrentArg.name = "--tick-ms="
                     /\ ~EqValueIsNumber(CurrentArg))
               \/ CurrentArg.name = "other")
                => (cli'.show_help /\ cli'.tick_ms = cli.tick_ms)]_vars

\* The rows and the progress text of st are those of children of dir.
ChildrenOf(dir, st) ==
    /\ \A k \in 1..Len(st.results) : st.results[k][1] \in
          {ChildPath(dir, j) : j \in 1..MaxChildren}
    /\ st.progress.kind = "child" =>
          st.progress.path \in {ChildPath(dir, j) : j \in 1..MaxChildren}

\* C31: last_target changes only in an accepted start_scan, to the path of
\* the target selected then; results and progress always hold children of
\* last_target, and a worker that has not ended scans last_target; Tab on
\* the Disk dive screen selects the next target and sets the scroll to 0,
\* and changes no field of the shared state and no worker, whether a scan
\* has not started, is running or has finished.
C31_LastTargetFrame ==
    /\ [](ChildrenOf(state.last_target, state))
    /\ [](\A w \in Alive : workers[w].target = state.last_target)
    /\ [][/\ state'.last_target # state.last_target =>
                /\ StartScanCall
                /\ ~state.running
                /\ state'.last_target = disk_target_path(disk_target)
          /\ (KeyTab /\ screen = "DiskDive") =>
                /\ disk_target' = next_disk_target(disk_target)
                /\ disk_scroll' = 0
                /\ state' = state
                /\ workers' = workers]_vars

\* A finished scan of "/var" with rows, shown on the Disk dive screen with
\* the target after it selected.
C31_Witness ==
    /\ ~state.running
    /\ state.last_finished_at > 0
    /\ state.results # <<>>
    /\ state.last_target = "/var"
    /\ screen = "DiskDive"
    /\ disk_target = "Home"

\* C32: the range of every rows slice lies inside its list:
\* offset <= end <= len, for every scroll offset, list length and height.
C32_SliceInBounds ==
    \A k \in 1..Len(slice) :
        /\ 0 <= slice[k].offset
        /\ slice[k].offset <= slice[k].end
        /\ slice[k].end <= slice[k].len

\* A frame drawn with the scroll offset saturated, past the end of a list
\* that is not empty.
C32_Witness ==
    /\ screen = "DiskDive"
    /\ disk_scroll = ScrollMax
    /\ Len(slice) = 1
    /\ slice[1].len > 0
    /\ slice[1].len < disk_scroll
    /\ slice[1].offset = slice[1].len - 1

====
